---- MODULE Spec2Model ----
(***************************************************************************)
(* Model of the apartment-scraper web application:                         *)
(*   - the GET request handler (filter pipeline, enrichment, sort),        *)
(*   - the localStorage-backed svelte stores (browserStore.ts),            *)
(*   - the hide / unhide operations of the main and the hidden page.       *)
(*                                                                         *)
(* Strings that the code parses or serialises are sequences of one-        *)
(* character strings.  Numbers are integers; squareMeterPrice is kept in   *)
(* hundredths (the value the code computes, times 100).  In the providers  *)
(* parameter a provider name is one symbol.  A listing on the client is    *)
(* its id and its title, the pages read no other field.                    *)
(***************************************************************************)
EXTENDS Integers, Sequences, FiniteSets, TLC

VARIABLES
    snapshot,     \* results.json: the sequence of SmallEntry records
    query,        \* the search parameters of the last GET request
    response,     \* data of the last GET response
    gpc           \* "idle" before the first request, "done" after one

gvars == <<snapshot, query, response, gpc>>

VARIABLES
    storage,      \* window.localStorage: key -> string, NULL when absent
    quotaFull,    \* localStorage.setItem raises QuotaExceededError
    status,       \* "closed", "running", or "crashed" (an error left module
                  \* or component initialisation)
    thrown,       \* the error that left the last operation, and the
                  \* operation it left; NoError otherwise
    undecodable,  \* the cells the last operation created from a durable
                  \* entry that does not decode
    appSettings,  \* value of the store appSettings ($lib/settings)
    priceMinStore, \* value of the main page's store priceMin
    catalog,      \* what the server answers to this client's requests
    route,        \* the mounted page: "main" or "hidden"
    data,         \* the mounted page's data (null | ExtendedEntry[])
    filteredData, \* the mounted page's reactive filteredData
    notified,     \* per call of a page subscriber during the last operation:
                  \* the cell and the durable entry at the moment of the call
    lastOp,       \* the last page load / hideEntry / unhideEntry, with the
                  \* hidden ids before it; for an unhideEntry(X) that follows
                  \* a hideEntry(X) of an id not hidden then (undo), the
                  \* hidden ids before that hideEntry (origin)
    viaMenu,      \* every hideEntry/unhideEntry of this session was called
                  \* from the menu of an entry the page showed
    startHidden   \* the hidden ids the session started with: "empty",
                  \* "distinct" or "duplicates"

cvars == <<storage, quotaFull, status, thrown, undecodable, appSettings,
           priceMinStore, catalog, route, data, filteredData, notified,
           lastOp, viaMenu, startHidden>>

\* JavaScript primitive values: null, NaN, a number, a string
NULL   == [t |-> "null", n |-> 0, s |-> <<>>]
NaN    == [t |-> "NaN", n |-> 0, s |-> <<>>]
Num(k) == [t |-> "number", n |-> k, s |-> <<>>]
Str(x) == [t |-> "string", n |-> 0, s |-> x]

(***************************************************************************)
(* Bounds                                                                  *)
(***************************************************************************)
MaxSnapshot == 2
MaxCatalog == 2
MaxHidden == 2

Range(s) == {s[i] : i \in 1..Len(s)}

SeqsUpTo(S, n) == UNION {[1..k -> S] : k \in 0..n}

(***************************************************************************)
(* Number(string | null)                                                   *)
(***************************************************************************)
Digits == <<"0", "1", "2", "3", "4", "5", "6", "7", "8", "9">>

IsDigit(c) == \E d \in 1..10 : Digits[d] = c

DigitValue(c) == (CHOOSE d \in 1..10 : Digits[d] = c) - 1

RECURSIVE DecimalValue(_)
DecimalValue(s) ==
    IF s = <<>> THEN 0
    ELSE 10 * DecimalValue(SubSeq(s, 1, Len(s) - 1)) + DigitValue(s[Len(s)])

AllDigits(s) == s # <<>> /\ \A i \in 1..Len(s) : IsDigit(s[i])

\* Number(v): null and the empty string are 0, a decimal integer literal with
\* an optional sign is its value, a text that is no numeric literal is NaN.
\* (Fractions, exponents, hexadecimal literals, blanks and Infinity are not
\* among the texts of the model.)
ToNumber(v) ==
    IF v.t # "string" THEN (IF v.t = "null" THEN Num(0) ELSE v)
    ELSE IF v.s = <<>> THEN Num(0)
    ELSE IF AllDigits(v.s) THEN Num(DecimalValue(v.s))
    ELSE IF v.s[1] = "-" /\ AllDigits(Tail(v.s)) THEN Num(0 - DecimalValue(Tail(v.s)))
    ELSE IF v.s[1] = "+" /\ AllDigits(Tail(v.s)) THEN Num(DecimalValue(Tail(v.s)))
    ELSE NaN

isNaN(x) == x = NaN

(***************************************************************************)
(* String.prototype.split(','), Array.prototype.includes; Array.prototype. *)
(* filter is SelectSeq                                                     *)
(***************************************************************************)
RECURSIVE SplitComma(_)
SplitComma(s) ==
    IF \A i \in 1..Len(s) : s[i] # ","
    THEN <<s>>
    ELSE LET k == CHOOSE i \in 1..Len(s) :
                      s[i] = "," /\ \A j \in 1..(i - 1) : s[j] # ","
         IN  <<SubSeq(s, 1, k - 1)>> \o SplitComma(SubSeq(s, k + 1, Len(s)))

includes(arr, x) == \E i \in 1..Len(arr) : arr[i] = x

(***************************************************************************)
(* Request handler GET (routes/+server.ts)                                 *)
(***************************************************************************)
\* squareMeterPrice in hundredths: Math.round(price / size * 100), where
\* Math.round rounds a half towards +Infinity.
toExtendedEntry(smallEntry) ==
    [provider |-> smallEntry.provider,
     id |-> smallEntry.id,
     price |-> smallEntry.price,
     size |-> smallEntry.size,
     rooms |-> smallEntry.rooms,
     squareMeterPrice |->
         (2 * smallEntry.price * 100 + smallEntry.size) \div (2 * smallEntry.size)]

PriceMinFilterStrict(e, priceMin) == e.price > priceMin

PriceMinFilter(e, priceMin) == e.price >= priceMin

PriceMaxFilter(e, priceMax) == e.price <= priceMax

RoomsFilter(e, rooms) == e.rooms >= rooms

AreaFilter(e, area) == e.size >= area

ProvidersFilter(e, providers) == includes(SplitComma(providers), <<e.provider>>)

\* The closures pushed to `filters`, as (kind, captured value) pairs
BuildFilters(q) ==
    LET priceMin == ToNumber(q.priceMin)
        priceMax == ToNumber(q.priceMax)
        rooms    == ToNumber(q.rooms)
        area     == ToNumber(q.area)
    IN  (IF ~isNaN(priceMin) /\ priceMin.n > 0
             THEN <<[kind |-> "priceMin", arg |-> priceMin.n]>> ELSE <<>>)
        \o (IF ~isNaN(priceMax) /\ priceMax.n > 0
             THEN <<[kind |-> "priceMax", arg |-> priceMax.n]>> ELSE <<>>)
        \o (IF ~isNaN(rooms) /\ rooms.n > 0
             THEN <<[kind |-> "rooms", arg |-> rooms.n]>> ELSE <<>>)
        \o (IF ~isNaN(area) /\ area.n > 0
             THEN <<[kind |-> "area", arg |-> area.n]>> ELSE <<>>)
        \o (IF q.providers # NULL
             THEN <<[kind |-> "providers", arg |-> q.providers.s]>> ELSE <<>>)

ApplyFilter(f, e) ==
    CASE f.kind = "priceMin"  -> PriceMinFilter(e, f.arg)
      [] f.kind = "priceMax"  -> PriceMaxFilter(e, f.arg)
      [] f.kind = "rooms"     -> RoomsFilter(e, f.arg)
      [] f.kind = "area"      -> AreaFilter(e, f.arg)
      [] f.kind = "providers" -> ProvidersFilter(e, f.arg)

\* filters.forEach(filter => filteredData = filteredData.filter(filter))
RECURSIVE ApplyFilters(_, _)
ApplyFilters(filters, filtered) ==
    IF filters = <<>> THEN filtered
    ELSE ApplyFilters(Tail(filters),
                      SelectSeq(filtered, LAMBDA e : ApplyFilter(Head(filters), e)))

\* Array.prototype.map(toExtendedEntry)
mapToExtended(arr) == [i \in 1..Len(arr) |-> toExtendedEntry(arr[i])]

compareDescending(a, b) == b.squareMeterPrice - a.squareMeterPrice

\* the comparator of extendedData.sort
compare(a, b) == a.squareMeterPrice - b.squareMeterPrice

\* Array.prototype.sort is a stable sort: x goes behind every element that
\* does not compare greater than it.
RECURSIVE InsertSorted(_, _)
InsertSorted(sorted, x) ==
    IF sorted = <<>> THEN <<x>>
    ELSE IF compare(Head(sorted), x) <= 0
         THEN <<Head(sorted)>> \o InsertSorted(Tail(sorted), x)
         ELSE <<x>> \o sorted

RECURSIVE sort(_)
sort(arr) ==
    IF arr = <<>> THEN <<>>
    ELSE InsertSorted(sort(SubSeq(arr, 1, Len(arr) - 1)), arr[Len(arr)])

GETResponse(snap, q) == sort(mapToExtended(ApplyFilters(BuildFilters(q), snap)))

(***************************************************************************)
(* Inputs of the request handler                                           *)
(***************************************************************************)
Providers == {"Immowelt", "MeineStadt"}

\* listing records without their id; ids are given by position, so that the
\* records of one snapshot are distinct listings
Listings ==
    [provider : Providers, price : {1, 2}, size : {1, 3}, rooms : {1, 2}]

WithId(l, i) ==
    [provider |-> l.provider, id |-> i, price |-> l.price,
     size |-> l.size, rooms |-> l.rooms]

Snapshots ==
    {[i \in 1..Len(s) |-> WithId(s[i], i)] : s \in SeqsUpTo(Listings, MaxSnapshot)}

Queries ==
    [priceMin  : {NULL, Str(<<"a">>), Str(<<"0">>), Str(<<"2">>)},
     priceMax  : {NULL, Str(<<"1">>), Str(<<"-", "1">>)},
     rooms     : {NULL, Str(<<"2">>)},
     area      : {NULL, Str(<<"3">>)},
     providers : {NULL, Str(<<"Immowelt">>), Str(<<"Immonet", ",", "MeineStadt">>)}]

NoQuery == [priceMin |-> NULL, priceMax |-> NULL, rooms |-> NULL,
            area |-> NULL, providers |-> NULL]

\* One request: GET({url, fetch}).  The handler keeps no state between
\* requests, so a behaviour is one request on one snapshot.
GET(q) ==
    /\ gpc = "idle"
    /\ query' = q
    /\ response' = GETResponse(snapshot, q)
    /\ gpc' = "done"
    /\ UNCHANGED <<snapshot, cvars>>

(***************************************************************************)
(* String(number), JSON.stringify and JSON.parse                           *)
(***************************************************************************)
RECURSIVE DigitsOf(_)
DigitsOf(n) ==
    IF n < 10 THEN <<Digits[n + 1]>>
    ELSE DigitsOf(n \div 10) \o <<Digits[(n % 10) + 1]>>

\* String(value) of a number or NaN
String(v) ==
    IF v.t = "NaN" THEN <<"N", "a", "N">>
    ELSE IF v.t = "null" THEN <<"n", "u", "l", "l">>
    ELSE IF v.n < 0 THEN <<"-">> \o DigitsOf(0 - v.n)
    ELSE DigitsOf(v.n)

\* a JSON string literal: quotes and backslashes are escaped
RECURSIVE Escape(_)
Escape(str) ==
    IF str = <<>> THEN <<>>
    ELSE (IF Head(str) \in {"\"", "\\"} THEN <<"\\", Head(str)>> ELSE <<Head(str)>>)
         \o Escape(Tail(str))

StringifyStringRaw(str) == <<"\"">> \o str \o <<"\"">>

StringifyString(str) == <<"\"">> \o Escape(str) \o <<"\"">>

RECURSIVE StringifyElements(_)
StringifyElements(arr) ==
    IF arr = <<>> THEN <<>>
    ELSE IF Len(arr) = 1 THEN StringifyString(arr[1])
    ELSE StringifyString(arr[1]) \o <<",">> \o StringifyElements(Tail(arr))

HiddenKey == <<"{", "\"", "h", "i", "d", "d", "e", "n", "\"", ":">>

\* JSON.stringify of an AppSettings object: {"hidden":["..",".."]}
JSONStringify(obj) ==
    HiddenKey \o <<"[">> \o StringifyElements(obj.hidden) \o <<"]", "}">>

ParseFail == [ok |-> FALSE, value |-> <<>>, next |-> 0]

\* the characters of a string literal from position i, behind its opening quote
RECURSIVE ScanString(_, _, _)
ScanString(s, i, acc) ==
    IF i > Len(s) THEN ParseFail
    ELSE IF s[i] = "\"" THEN [ok |-> TRUE, value |-> acc, next |-> i + 1]
    ELSE IF s[i] = "\\"
         THEN IF i + 1 <= Len(s) /\ s[i + 1] \in {"\"", "\\"}
              THEN ScanString(s, i + 2, Append(acc, s[i + 1]))
              ELSE ParseFail
    ELSE ScanString(s, i + 1, Append(acc, s[i]))

\* the elements of an array of strings from position i, behind "[" or ","
RECURSIVE ScanElements(_, _, _)
ScanElements(s, i, acc) ==
    IF i > Len(s) \/ s[i] # "\"" THEN ParseFail
    ELSE LET r == ScanString(s, i + 1, <<>>)
         IN  IF ~r.ok \/ r.next > Len(s) THEN ParseFail
             ELSE IF s[r.next] = ","
                  THEN ScanElements(s, r.next + 1, Append(acc, r.value))
             ELSE IF s[r.next] = "]"
                  THEN [ok |-> TRUE, value |-> Append(acc, r.value), next |-> r.next + 1]
             ELSE ParseFail

\* JSON.parse on the texts the settings cell can hold: an object with the one
\* key "hidden" and an array of strings.  ok = FALSE is a SyntaxError; the
\* other texts of the model (CorruptTexts) are no JSON at all.
JSONParse(s) ==
    LET k == Len(HiddenKey)
    IN  IF Len(s) < k + 3 \/ SubSeq(s, 1, k) # HiddenKey \/ s[k + 1] # "["
        THEN ParseFail
        ELSE LET r == IF s[k + 2] = "]"
                      THEN [ok |-> TRUE, value |-> <<>>, next |-> k + 3]
                      ELSE ScanElements(s, k + 2, <<>>)
             IN  IF r.ok /\ r.next = Len(s) /\ s[r.next] = "}"
                 THEN [ok |-> TRUE, value |-> [hidden |-> r.value], next |-> r.next + 1]
                 ELSE ParseFail

(***************************************************************************)
(* browserStore.ts: svelte stores written through to localStorage          *)
(***************************************************************************)
\* the subscribers of a cell in the order svelte calls them: getBrowserStore
\* subscribes its persistence hook before it returns the store, a page
\* component subscribes when it mounts
SubscribersPageFirst(pageSubscribed) ==
    (IF pageSubscribed THEN <<"page">> ELSE <<>>) \o <<"persist">>

Subscribers(pageSubscribed) ==
    <<"persist">> \o (IF pageSubscribed THEN <<"page">> ELSE <<>>)

\* The persistence hook of getBrowserStore, `str` being decode(value):
\* removeItem for null, setItem otherwise; setItem raises when storage is full.
PersistHook(name, isNull, str, stor, full) ==
    IF isNull THEN [storage |-> [stor EXCEPT ![name] = NULL], thrown |-> "none"]
    ELSE IF full THEN [storage |-> stor, thrown |-> "QuotaExceededError"]
    ELSE [storage |-> [stor EXCEPT ![name] = Str(str)], thrown |-> "none"]

\* svelte's writable.set / the first call on subscribe: the subscribers run in
\* order, an error raised by one of them ends the call.  seen: what each page
\* subscriber finds in localStorage at the moment it is called.
RECURSIVE RunSubscribers(_, _, _, _, _, _)
RunSubscribers(subs, name, isNull, str, stor, full) ==
    IF subs = <<>> THEN [storage |-> stor, thrown |-> "none", seen |-> <<>>]
    ELSE IF Head(subs) = "persist"
    THEN LET w == PersistHook(name, isNull, str, stor, full)
         IN  IF w.thrown # "none"
             THEN [storage |-> w.storage, thrown |-> w.thrown, seen |-> <<>>]
             ELSE RunSubscribers(Tail(subs), name, isNull, str, w.storage, full)
    ELSE LET r == RunSubscribers(Tail(subs), name, isNull, str, stor, full)
         IN  [storage |-> r.storage, thrown |-> r.thrown,
              seen |-> <<[cell |-> name, stored |-> stor[name]]>> \o r.seen]

\* store.set(value) of the object cell "settings" (decode = JSON.stringify)
SetSettings(value, pageSubscribed, stor, full) ==
    RunSubscribers(Subscribers(pageSubscribed), "settings", FALSE,
                   JSONStringify(value), stor, full)

\* store.set(value) of the numeric cell "priceMin" (decode = String)
SetNumber(value, pageSubscribed, stor, full) ==
    RunSubscribers(Subscribers(pageSubscribed), "priceMin", value = NULL,
                   String(value), stor, full)

DefaultSettings == [hidden |-> <<>>]

\* getObjectBrowserStore('settings', new AppSettings([])): the store's first
\* value, encode(localStorage.getItem(name) ?? JSON.stringify(initial))
CreateSettings(stor) ==
    JSONParse(IF stor["settings"] # NULL THEN stor["settings"].s
              ELSE JSONStringify(DefaultSettings))

\* getNumberBrowserStore("priceMin", null): Number(getItem(name) ?? initial)
CreateNumber(stor) ==
    ToNumber(IF stor["priceMin"] # NULL THEN stor["priceMin"] ELSE NULL)

(***************************************************************************)
(* The pages: routes/+page.svelte (main), routes/hidden/+page.svelte       *)
(***************************************************************************)
NullArray == [isNull |-> TRUE, arr |-> <<>>]
Array(a)  == [isNull |-> FALSE, arr |-> a]

filterDataMainNoNegation(d, hidden) ==
    IF d.isNull THEN NullArray
    ELSE Array(SelectSeq(d.arr, LAMBDA e : includes(hidden, e.id)))

filterDataMainShowAll(d, hidden) ==
    IF d.isNull THEN NullArray ELSE Array(d.arr)

\* main page: the entries whose id is not hidden
filterDataMain(d, hidden) ==
    IF d.isNull THEN NullArray
    ELSE Array(SelectSeq(d.arr, LAMBDA e : ~includes(hidden, e.id)))

\* hidden page: the entries whose id is hidden
filterDataHidden(d, hidden) ==
    Array(SelectSeq(d.arr, LAMBDA e : includes(hidden, e.id)))

\* the reactive statement `$: filteredData = filterData(...)` of the page
Refilter(r, d, hidden) ==
    IF r = "main" THEN filterDataMain(d, hidden) ELSE filterDataHidden(d, hidden)

\* $appSettings.hidden.push(entry.id)
PushHidden(hidden, id) == Append(hidden, id)

RemoveHiddenInverted(hidden, id) == SelectSeq(hidden, LAMBDA x : x = id)

\* $appSettings.hidden.filter(id => id != entry.id)
RemoveHidden(hidden, id) == SelectSeq(hidden, LAMBDA x : x # id)

NoError == [error |-> "none", op |-> "none"]

Error(err, op) ==
    IF err = "none" THEN NoError ELSE [error |-> err, op |-> op]

\* a durable entry that the cell's encode function cannot decode
UndecodableCells(r, stor) ==
    {c \in {"settings"} : stor[c] # NULL /\ ~JSONParse(stor[c].s).ok}
    \cup {c \in {"priceMin"} :
              r = "main" /\ stor[c] # NULL /\ ToNumber(stor[c]) = NaN}

NoOp == [op |-> "none", id |-> <<>>, before |-> <<>>, wasRunning |-> FALSE,
         undo |-> FALSE, origin |-> <<>>]

(***************************************************************************)
(* Inputs of a client session                                              *)
(***************************************************************************)
\* listing ids; the second one needs escaping in JSON
Ids == {<<"a">>, <<"\\", "\"">>}

\* the second and the third entry are two listings with one id
Entries ==
    {[id |-> <<"a">>, title |-> "x"],
     [id |-> <<"\\", "\"">>, title |-> "x"],
     [id |-> <<"\\", "\"">>, title |-> "y"]}

\* a catalog lists each of its listings once
Catalogs ==
    {c \in SeqsUpTo(Entries, MaxCatalog) :
        \A i, j \in 1..Len(c) : c[i] = c[j] => i = j}

\* texts of the key "settings" that are no JSON
CorruptTexts == {<<"{">>, HiddenKey \o <<"[", "\"", "a", "]", "}">>}

NumberInputs == {NULL, Num(12)}

InitialStorage ==
    {[settings |-> NULL, priceMin |-> NULL]}
    \cup {[settings |-> Str(t), priceMin |-> NULL] : t \in CorruptTexts}
    \cup {[settings |-> NULL, priceMin |-> Str(<<"a">>)]}

(***************************************************************************)
(* Operations of a client session                                          *)
(***************************************************************************)
NoDuplicates(seq) == \A i, j \in 1..Len(seq) : seq[i] = seq[j] => i = j

Classify(hidden) ==
    IF hidden = <<>> THEN "empty"
    ELSE IF NoDuplicates(hidden) THEN "distinct"
    ELSE "duplicates"

\* A page component is created: the main page creates its number store (whose
\* persistence hook runs at once) and starts with data = null until
\* fetchData answers; the hidden page gets its data from load().
Mount(r, hidden, stor, full) ==
    IF r = "main"
    THEN LET n == CreateNumber(stor)
             w == SetNumber(n, FALSE, stor, full)
         IN  [storage |-> w.storage, thrown |-> w.thrown, number |-> n,
              data |-> NullArray, filteredData |-> filterDataMain(NullArray, hidden)]
    ELSE [storage |-> stor, thrown |-> "none", number |-> NULL,
          data |-> Array(catalog),
          filteredData |-> filterDataHidden(Array(catalog), hidden)]

Crash(err, op, stor) ==
    /\ status' = "crashed"
    /\ thrown' = Error(err, op)
    /\ storage' = stor
    /\ appSettings' = DefaultSettings
    /\ priceMinStore' = NULL
    /\ data' = NullArray
    /\ filteredData' = NullArray

\* The browser opens or reloads the application at route r: $lib/settings
\* creates the store appSettings, then the page is mounted.
LoadPage(r) ==
    /\ route' = r
    /\ notified' = <<>>
    /\ lastOp' = [op |-> "load", id |-> <<>>, before |-> appSettings.hidden,
                  wasRunning |-> status = "running", undo |-> FALSE,
                  origin |-> <<>>]
    /\ viaMenu' = TRUE
    /\ undecodable' = UndecodableCells(r, storage)
    /\ UNCHANGED <<quotaFull, catalog, gvars>>
    /\ LET c == CreateSettings(storage)
       IN  IF ~c.ok
           THEN Crash("SyntaxError", "LoadPage", storage) /\ startHidden' = "empty"
           ELSE LET w == SetSettings(c.value, FALSE, storage, quotaFull)
                    m == Mount(r, c.value.hidden, w.storage, quotaFull)
                IN  /\ startHidden' = Classify(c.value.hidden)
                    /\ IF w.thrown # "none"
                       THEN Crash(w.thrown, "LoadPage", w.storage)
                       ELSE IF m.thrown # "none"
                       THEN Crash(m.thrown, "LoadPage", m.storage)
                       ELSE /\ status' = "running"
                            /\ thrown' = NoError
                            /\ storage' = m.storage
                            /\ appSettings' = c.value
                            /\ priceMinStore' = m.number
                            /\ data' = m.data
                            /\ filteredData' = m.filteredData

\* client-side navigation between the two pages
Navigate(r) ==
    /\ status = "running"
    /\ r # route
    /\ route' = r
    /\ notified' = <<>>
    /\ UNCHANGED <<quotaFull, catalog, appSettings, lastOp, viaMenu,
                   startHidden, gvars>>
    /\ LET m == Mount(r, appSettings.hidden, storage, quotaFull)
       IN  /\ storage' = m.storage
           /\ thrown' = Error(m.thrown, "Navigate")
           /\ undecodable' = UndecodableCells(r, storage) \ {"settings"}
           /\ status' = IF m.thrown # "none" THEN "crashed" ELSE "running"
           /\ priceMinStore' = m.number
           /\ data' = m.data
           /\ filteredData' = m.filteredData

\* fetchData of the main page: the response arrives
fetchData ==
    /\ status = "running"
    /\ route = "main"
    /\ data' = Array(catalog)
    /\ filteredData' = filterDataMain(Array(catalog), appSettings.hidden)
    /\ thrown' = NoError
    /\ undecodable' = {}
    /\ notified' = <<>>
    /\ UNCHANGED <<storage, quotaFull, status, appSettings, priceMinStore,
                   catalog, route, lastOp, viaMenu, startHidden, gvars>>

\* bind:value={$priceMin}: the input sets the store; svelte's set does
\* nothing when a primitive value does not change
SetPriceMin(v) ==
    /\ status = "running"
    /\ route = "main"
    /\ v # priceMinStore
    /\ priceMinStore' = v
    /\ LET w == SetNumber(v, TRUE, storage, quotaFull)
       IN  /\ storage' = w.storage
           /\ thrown' = Error(w.thrown, "SetPriceMin")
           /\ notified' = w.seen
    /\ undecodable' = {}
    /\ UNCHANGED <<quotaFull, status, appSettings, catalog, route, data,
                   filteredData, lastOp, viaMenu, startHidden, gvars>>

\* hideEntry(entry) of the main page; the length of the hidden list is
\* capped at MaxHidden
hideEntry(entry) ==
    /\ status = "running"
    /\ route = "main"
    /\ Len(appSettings.hidden) < MaxHidden
    /\ LET value == [hidden |-> PushHidden(appSettings.hidden, entry.id)]
           w == SetSettings(value, TRUE, storage, quotaFull)
       IN  /\ appSettings' = value
           /\ storage' = w.storage
           /\ thrown' = Error(w.thrown, "hideEntry")
           /\ notified' = w.seen
           /\ filteredData' = IF w.seen # <<>>
                              THEN Refilter(route, data, value.hidden)
                              ELSE filteredData
    /\ lastOp' = [op |-> "hide", id |-> entry.id, before |-> appSettings.hidden,
                  wasRunning |-> TRUE, undo |-> FALSE, origin |-> <<>>]
    /\ viaMenu' = (viaMenu /\ includes(filteredData.arr, entry))
    /\ undecodable' = {}
    /\ UNCHANGED <<quotaFull, status, priceMinStore, catalog, route, data,
                   startHidden, gvars>>

\* unhideEntry(entry) of the hidden page: two assignments to $appSettings,
\* each one a store.set
unhideEntry(entry) ==
    /\ status = "running"
    /\ route = "hidden"
    /\ LET value == [hidden |-> RemoveHidden(appSettings.hidden, entry.id)]
           w1 == SetSettings(value, TRUE, storage, quotaFull)
           w2 == IF w1.thrown # "none" THEN w1
                 ELSE SetSettings(value, TRUE, w1.storage, quotaFull)
       IN  /\ appSettings' = value
           /\ storage' = w2.storage
           /\ thrown' = Error(w2.thrown, "unhideEntry")
           /\ notified' = IF w1.thrown # "none" THEN w1.seen ELSE w1.seen \o w2.seen
           /\ filteredData' = IF w1.seen # <<>>
                              THEN Refilter(route, data, value.hidden)
                              ELSE filteredData
    /\ lastOp' =
           LET undo == /\ lastOp.op = "hide"
                       /\ lastOp.id = entry.id
                       /\ ~includes(lastOp.before, entry.id)
           IN  [op |-> "unhide", id |-> entry.id, before |-> appSettings.hidden,
                wasRunning |-> TRUE, undo |-> undo,
                origin |-> IF undo THEN lastOp.before ELSE <<>>]
    /\ viaMenu' = (viaMenu /\ includes(filteredData.arr, entry))
    /\ undecodable' = {}
    /\ UNCHANGED <<quotaFull, status, priceMinStore, catalog, route, data,
                   startHidden, gvars>>

\* localStorage fills up or is freed by other pages of the origin
StorageQuota ==
    /\ quotaFull' = ~quotaFull
    /\ UNCHANGED <<storage, status, thrown, undecodable, appSettings,
                   priceMinStore, catalog,
                   route, data, filteredData, notified, lastOp,
                   viaMenu, startHidden, gvars>>

Next ==
    \/ \E r \in {"main", "hidden"} : LoadPage(r)
    \/ \E r \in {"main", "hidden"} : Navigate(r)
    \/ fetchData
    \/ \E v \in NumberInputs : SetPriceMin(v)
    \/ \E entry \in Entries : hideEntry(entry)
    \/ \E entry \in Entries : unhideEntry(entry)

(***************************************************************************)
(* Specifications                                                          *)
(***************************************************************************)
vars == <<gvars, cvars>>

NoStorage == [k \in {"settings", "priceMin"} |-> NULL]

\* The application has not been opened yet; localStorage holds whatever
\* earlier visits and other scripts of the origin left.
Init ==
    /\ storage \in InitialStorage
    /\ catalog \in Catalogs
    /\ quotaFull = FALSE
    /\ status = "closed"
    /\ thrown = NoError
    /\ undecodable = {}
    /\ appSettings = DefaultSettings
    /\ priceMinStore = NULL
    /\ route = "main"
    /\ data = NullArray
    /\ filteredData = NullArray
    /\ notified = <<>>
    /\ lastOp = NoOp
    /\ viaMenu = TRUE
    /\ startHidden = "empty"
    /\ snapshot = <<>>
    /\ query = NoQuery
    /\ response = <<>>
    /\ gpc = "idle"

\* a client session; localStorage.setItem succeeds
Spec == Init /\ [][Next]_vars

NextQuota == Next \/ StorageQuota

\* a first visit (nothing stored yet) with a catalog of two listings
InitQuota ==
    /\ storage = NoStorage
    /\ catalog = <<[id |-> <<"a">>, title |-> "x"],
                   [id |-> <<"\\", "\"">>, title |-> "x"]>>
    /\ quotaFull = FALSE
    /\ status = "closed"
    /\ thrown = NoError
    /\ undecodable = {}
    /\ appSettings = DefaultSettings
    /\ priceMinStore = NULL
    /\ route = "main"
    /\ data = NullArray
    /\ filteredData = NullArray
    /\ notified = <<>>
    /\ lastOp = NoOp
    /\ viaMenu = TRUE
    /\ startHidden = "empty"
    /\ snapshot = <<>>
    /\ query = NoQuery
    /\ response = <<>>
    /\ gpc = "idle"

\* a client session in which localStorage.setItem can fail
SpecQuota == InitQuota /\ [][NextQuota]_vars

\* the server with some results.json, no client
InitGET ==
    /\ snapshot \in Snapshots
    /\ query = NoQuery
    /\ response = <<>>
    /\ gpc = "idle"
    /\ storage = NoStorage
    /\ catalog = <<>>
    /\ quotaFull = FALSE
    /\ status = "closed"
    /\ thrown = NoError
    /\ undecodable = {}
    /\ appSettings = DefaultSettings
    /\ priceMinStore = NULL
    /\ route = "main"
    /\ data = NullArray
    /\ filteredData = NullArray
    /\ notified = <<>>
    /\ lastOp = NoOp
    /\ viaMenu = TRUE
    /\ startHidden = "empty"

NextGET == \E q \in Queries : GET(q)

\* one request to the server
SpecGET == InitGET /\ [][NextGET]_vars

(***************************************************************************)
(* Properties of the request handler                                       *)
(***************************************************************************)
\* a numeric parameter is active when it parses as a number greater than zero
ParsesPositive(v) == LET x == ToNumber(v) IN x.t = "number" /\ x.n > 0

ProviderNames(v) == Range(SplitComma(v.s))

SatisfiesQuery(e, q) ==
    /\ ParsesPositive(q.priceMin) => e.price >= ToNumber(q.priceMin).n
    /\ ParsesPositive(q.priceMax) => e.price <= ToNumber(q.priceMax).n
    /\ ParsesPositive(q.rooms) => e.rooms >= ToNumber(q.rooms).n
    /\ ParsesPositive(q.area) => e.size >= ToNumber(q.area).n
    /\ q.providers # NULL => <<e.provider>> \in ProviderNames(q.providers)

NoActiveParameter(q) ==
    /\ ~ParsesPositive(q.priceMin) /\ ~ParsesPositive(q.priceMax)
    /\ ~ParsesPositive(q.rooms) /\ ~ParsesPositive(q.area)
    /\ q.providers = NULL

\* C7: a snapshot record is in the GET response iff it satisfies every active
\* predicate (numeric parameters active only when they parse as a number > 0,
\* providers active only when present); the response holds nothing but
\* snapshot records, and all of them when no parameter is active.
C7_FilterConjunction ==
    gpc = "done" =>
        /\ \A i \in 1..Len(snapshot) :
               (\E j \in 1..Len(response) : response[j].id = i)
                   <=> SatisfiesQuery(snapshot[i], query)
        /\ \A j \in 1..Len(response) :
               /\ response[j].id \in 1..Len(snapshot)
               /\ \A f \in {"provider", "price", "size", "rooms"} :
                      response[j][f] = snapshot[response[j].id][f]
        /\ NoActiveParameter(query) => Len(response) = Len(snapshot)

\* a non-numeric priceMin is ignored while priceMax and providers filter:
\* one of two records is returned
C7_Witness ==
    /\ gpc = "done"
    /\ query.priceMin = Str(<<"a">>)
    /\ query.priceMax = Str(<<"1">>)
    /\ query.providers # NULL
    /\ Len(snapshot) = 2
    /\ Len(response) = 1

\* C8: the GET response is in ascending order of squareMeterPrice, and
\* records of equal squareMeterPrice keep their snapshot order.
C8_SortedStable ==
    gpc = "done" =>
        \A j, k \in 1..Len(response) :
            j < k =>
                /\ response[j].squareMeterPrice <= response[k].squareMeterPrice
                /\ response[j].squareMeterPrice = response[k].squareMeterPrice
                       => response[j].id < response[k].id

\* the sort moved a later snapshot record in front of an earlier one
C8_Witness ==
    /\ gpc = "done"
    /\ Len(response) = 2
    /\ response[1].id > response[2].id
    /\ response[1].squareMeterPrice < response[2].squareMeterPrice

(***************************************************************************)
(* Properties of the client session                                        *)
(***************************************************************************)
Hidden == appSettings.hidden

\* the two views of the whole catalog under the current hidden ids
VisibleView == filterDataMain(Array(catalog), Hidden).arr
HiddenView  == filterDataHidden(Array(catalog), Hidden).arr

Occurrences(seq, x) == Cardinality({i \in 1..Len(seq) : seq[i] = x})

CatalogIds == {catalog[i].id : i \in 1..Len(catalog)}

\* C1: starting from the empty hidden list, the hidden ids of the settings
\* cell never hold an id twice, and hideEntry of an id that is already
\* hidden leaves the list as it was.
C1_NoDuplicateHidden ==
    (status = "running" /\ startHidden = "empty") =>
        /\ NoDuplicates(Hidden)
        /\ (lastOp.op = "hide" /\ includes(lastOp.before, lastOp.id))
               => Hidden = lastOp.before

\* C2: the visible view and the hidden view of one catalog are disjoint and
\* together hold every catalog entry exactly once, whatever the hidden ids
\* are (ids of no catalog entry and repeated ids included).
C2_Partition ==
    /\ \A i \in 1..Len(catalog) :
           /\ Occurrences(VisibleView, catalog[i]) + Occurrences(HiddenView, catalog[i])
                  = Occurrences(catalog, catalog[i])
           /\ ~(includes(VisibleView, catalog[i]) /\ includes(HiddenView, catalog[i]))
    /\ Range(VisibleView) \cup Range(HiddenView) = Range(catalog)
    /\ Len(VisibleView) + Len(HiddenView) = Len(catalog)

\* both views are inhabited while the hidden ids hold one id twice and
\* therefore more ids than the catalog has hidden entries
C2_Witness ==
    /\ status = "running"
    /\ Len(VisibleView) = 1
    /\ Len(HiddenView) = 1
    /\ ~NoDuplicates(Hidden)

\* C3: hideEntry(X) of an id that is not hidden followed by unhideEntry(X)
\* gives back the visible view from before the hideEntry: the same entries
\* in the same order.
C3_HideUnhideRoundTrip ==
    (status = "running" /\ lastOp.op = "unhide" /\ lastOp.undo) =>
        VisibleView = filterDataMain(Array(catalog), lastOp.origin).arr

\* the round trip was made on an id of the catalog while another id was
\* hidden and one entry visible
C3_Witness ==
    /\ status = "running"
    /\ lastOp.op = "unhide"
    /\ lastOp.undo
    /\ lastOp.id \in CatalogIds
    /\ lastOp.origin # <<>>
    /\ Len(VisibleView) = 1
    /\ Len(catalog) = 2

\* the durable entry a cell's current value is written as
DurableOf(cell) ==
    IF cell = "settings" THEN Str(JSONStringify(appSettings))
    ELSE IF priceMinStore = NULL THEN NULL
    ELSE Str(String(priceMinStore))

\* C4: whenever a page subscriber is called with a new value, and when the
\* set has returned, the durable entry of the cell is the encoding of the
\* value, and is absent when the value is null.
C4_WriteThroughBeforeNotify ==
    status = "running" =>
        /\ \A k \in 1..Len(notified) :
               notified[k].stored = DurableOf(notified[k].cell)
        /\ storage["settings"] = DurableOf("settings")
        /\ route = "main" => storage["priceMin"] = DurableOf("priceMin")

\* the page was notified of priceMin = null and found the entry deleted
C4_Witness ==
    /\ status = "running"
    /\ notified # <<>>
    /\ notified[1].cell = "priceMin"
    /\ priceMinStore = NULL
    /\ notified[1].stored = NULL

\* C5: a cell created from a durable entry that does not decode has the
\* caller's default value (the empty settings, null for the numeric cell)
\* and no error reaches the caller.
C5_FallbackToDefault ==
    undecodable # {} =>
        /\ status = "running"
        /\ thrown = NoError
        /\ "settings" \in undecodable => appSettings = DefaultSettings
        /\ "priceMin" \in undecodable => priceMinStore = NULL

\* C6: when the durable write fails during hideEntry or unhideEntry, the
\* hidden ids in memory are the new ones and no error leaves the operation.
C6_WriteFailureRecovered ==
    /\ (status = "running" /\ lastOp.op = "hide")
           => Hidden = Append(lastOp.before, lastOp.id)
    /\ (status = "running" /\ lastOp.op = "unhide")
           => Hidden = SelectSeq(lastOp.before, LAMBDA x : x # lastOp.id)
    /\ thrown.op \notin {"hideEntry", "unhideEntry"}

\* C9: a page load that ends a running session creates the settings cell
\* with exactly the hidden ids the session had in memory.
C9_HiddenSurvivesSessions ==
    (lastOp.op = "load" /\ lastOp.wasRunning) =>
        /\ status = "running"
        /\ Hidden = lastOp.before

\* a reload brought back two hidden ids, one of which needs escaping
C9_Witness ==
    /\ lastOp.op = "load"
    /\ lastOp.wasRunning
    /\ status = "running"
    /\ Len(Hidden) = 2
    /\ includes(Hidden, <<"\\", "\"">>)

\* C10: in a session that starts without duplicates and in which hideEntry
\* and unhideEntry are only called from the menu of an entry the page shows,
\* the hidden ids never hold an id twice.
C10_MenuKeepsHiddenDistinct ==
    (status = "running" /\ startHidden # "duplicates" /\ viaMenu) =>
        NoDuplicates(Hidden)

\* an entry was hidden from its menu while the catalog has another entry
\* with the same id
C10_Witness ==
    /\ status = "running"
    /\ startHidden # "duplicates"
    /\ viaMenu
    /\ lastOp.op = "hide"
    /\ \E i, j \in 1..Len(catalog) :
           i # j /\ catalog[i].id = lastOp.id /\ catalog[j].id = lastOp.id
    /\ Len(Hidden) = 2

====
